---- MODULE Spec2Model ----
(***************************************************************************)
(* Model of scripts/cnssi-merge.py: the rule tag merger.                   *)
(*                                                                         *)
(* A path is a sequence of tokens; the tokens "rules" and "supplemental"   *)
(* stand for those substrings, "/" for the separator, and every other      *)
(* token for a piece of text that contains none of the three.              *)
(* A text is a sequence of lines (LF line ends).  A line is either a       *)
(* top-level key line `name:<val>` at column 0 or a list item `- tag`      *)
(* at column 0 or 2.                                                       *)
(***************************************************************************)
EXTENDS Naturals, Sequences, FiniteSets, TLC

VARIABLES
    pathToProject,       \* sys.argv[1]
    pathToCNSSICustoms,  \* sys.argv[2]
    customs,             \* the customs tree: path -> text of each regular file
    project,             \* the project tree: path -> text of each regular file
    globbed,             \* the list glob.glob returned for the current run
    idx,                 \* position of the for loop in globbed (next element)
    pc,                  \* "loop", "done" (loop exhausted), "aborted" (exception)
    out,                 \* what the run printed so far
    run,                 \* number of the current invocation
    base,                \* the project tree when the current invocation started
    orig                 \* the project tree before the first invocation

vars == <<pathToProject, pathToCNSSICustoms, customs, project, globbed, idx,
          pc, out, run, base, orig>>

\* ---------------------------------------------------------------- bounds
MaxLen == 3        \* lines of a target rule file before the first run
MaxRuns == 2       \* invocations of the tool in one behaviour
MaxSrc == 2        \* rule files of a customs tree that holds several

\* ----------------------------------------------------------------- lines
Key(name, val) == [k |-> "key", name |-> name, val |-> val]
Item(ind, tag) == [k |-> "item", ind |-> ind, tag |-> tag]

IsKey(l) == l.k = "key"
IsItem(l) == l.k = "item"

\* Python values the YAML loader builds
PyNone == [py |-> "None"]
PyStr(s) == [py |-> "str", s |-> s]
PyList(items) == [py |-> "list", items |-> items]

\* the value of a list item: `- ` is null, `- a` is the string a
ItemValue(l) == IF l.tag = "" THEN PyNone ELSE PyStr(l.tag)

\* the value a key line gives its key before any block below it is read
InlineValue(l) ==
    CASE l.val = "scalar" -> PyStr("x")
      [] l.val = "elist"  -> PyList(<<>>)
      [] OTHER            -> PyNone

\* ------------------------------------------------------------- yaml.load
\* One step of the loader over a line.  st is the parser's position:
\*   "start"  nothing read            "doc0"/"doc2" the document is a sequence
\*   "scalar" below a key with a value "empty" below a key without one
\*   "seq0"/"seq2" in the block sequence of key cur, at column 0 / 2
ParseInit == [st |-> "start", keys |-> <<>>, cur |-> "", items |-> <<>>]

SetKey(keys, name, v) ==
    [n \in (DOMAIN keys) \cup {name} |-> IF n = name THEN v ELSE keys[n]]

ParseLine(a, l) ==
    IF a.st = "error" THEN a
    ELSE IF a.st = "start" /\ IsItem(l)
    THEN [a EXCEPT !.st = IF l.ind = 0 THEN "doc0" ELSE "doc2",
                   !.items = <<ItemValue(l)>>]
    ELSE IF a.st \in {"doc0", "doc2"}
    THEN IF IsItem(l) /\ ((a.st = "doc0") <=> (l.ind = 0))
         THEN [a EXCEPT !.items = Append(@, ItemValue(l))]
         ELSE [a EXCEPT !.st = "error"]
    ELSE IF IsKey(l)
    THEN [a EXCEPT !.st = IF l.val = "null" THEN "empty" ELSE "scalar",
                   !.keys = SetKey(a.keys, l.name, InlineValue(l)),
                   !.cur = l.name]
    ELSE IF a.st = "empty"
    THEN [a EXCEPT !.st = IF l.ind = 0 THEN "seq0" ELSE "seq2",
                   !.keys = SetKey(a.keys, a.cur, PyList(<<ItemValue(l)>>))]
    ELSE IF (a.st = "seq0" /\ l.ind = 0) \/ (a.st = "seq2" /\ l.ind = 2)
    THEN [a EXCEPT !.keys = SetKey(a.keys, a.cur,
                       PyList(Append(a.keys[a.cur].items, ItemValue(l))))]
    ELSE [a EXCEPT !.st = "error"]

RECURSIVE ParseFrom(_, _, _)
ParseFrom(a, text, i) ==
    IF i > Len(text) THEN a ELSE ParseFrom(ParseLine(a, text[i]), text, i + 1)

\* yaml.load(f, Loader=yaml.SafeLoader): a parse error, None (empty document),
\* a list or a dict
Load(text) ==
    LET a == ParseFrom(ParseInit, text, 1) IN
    CASE a.st = "error"            -> [kind |-> "error"]
      [] a.st = "start"            -> [kind |-> "none"]
      [] a.st \in {"doc0", "doc2"} -> [kind |-> "list", items |-> a.items]
      [] OTHER                     -> [kind |-> "dict", keys |-> a.keys]

\* --------------------------------------------------------- python values
\* tags[0]: the first element of a list, the first character of a string
\* (every string value here has at most one character); an empty list or
\* string raises IndexError and None raises TypeError
CanSubscript0(v) ==
    \/ v.py = "list" /\ Len(v.items) > 0
    \/ v.py = "str" /\ v.s # ""

Subscript0(v) == IF v.py = "list" THEN v.items[1] ELSE v

\* '{}'.format(v): str(v)
Format(v) ==
    CASE v.py = "None" -> "None"
      [] v.py = "str"  -> v.s
      [] OTHER         -> "[]"

\* rule_cnssi_yaml.get('tags', [''])
GetTags(d) ==
    IF "tags" \in DOMAIN d.keys THEN d.keys["tags"] ELSE PyList(<<PyStr("")>>)

\* 'severity' in rule_yaml, for a dict or a list
HasSeverity(d) ==
    IF d.kind = "dict" THEN "severity" \in DOMAIN d.keys
    ELSE \E i \in 1..Len(d.items) : d.items[i] = PyStr("severity")

\* ------------------------------------------------------------ str.replace
\* the line `- <tag>` of cnssitag
TagLine(tag) == Item(0, tag)

\* mutant of Matches: the pattern without its leading newline
Matches_FirstLineToo(text, i, anchor) ==
    IsKey(text[i]) /\ text[i].name = anchor

\* text.replace("\n<anchor>:", "\n- <tag>\n<anchor>:"): a line matches when it
\* starts with `<anchor>:` at column 0 and a newline precedes it, that is when
\* it is not the first line of the text; every match is replaced
Matches(text, i, anchor) ==
    i > 1 /\ IsKey(text[i]) /\ text[i].name = anchor

\* mutant of ReplaceFrom: replace(old, new, 1)
RECURSIVE ReplaceFrom_FirstOnly(_, _, _, _)
ReplaceFrom_FirstOnly(text, i, anchor, tag) ==
    IF i > Len(text) THEN <<>>
    ELSE IF Matches(text, i, anchor)
         THEN <<TagLine(tag), text[i]>> \o SubSeq(text, i + 1, Len(text))
    ELSE <<text[i]>> \o ReplaceFrom_FirstOnly(text, i + 1, anchor, tag)

RECURSIVE ReplaceFrom(_, _, _, _)
ReplaceFrom(text, i, anchor, tag) ==
    IF i > Len(text) THEN <<>>
    ELSE (IF Matches(text, i, anchor) THEN <<TagLine(tag), text[i]>>
          ELSE <<text[i]>>) \o ReplaceFrom(text, i + 1, anchor, tag)

Replace(text, anchor, tag) == ReplaceFrom(text, 1, anchor, tag)

\* ----------------------------------------------------------------- paths
Contains(s, tok) == \E i \in 1..Len(s) : s[i] = tok

First(s, tok) == CHOOSE i \in 1..Len(s) : s[i] = tok /\ \A j \in 1..(i - 1) : s[j] # tok

\* s.split(tok): the pieces of s between the occurrences of tok
RECURSIVE Split(_, _)
Split(s, tok) ==
    IF ~Contains(s, tok) THEN <<s>>
    ELSE <<SubSeq(s, 1, First(s, tok) - 1)>>
         \o Split(SubSeq(s, First(s, tok) + 1, Len(s)), tok)

\* Path(str): repeated and trailing separators are dropped
RECURSIVE Collapse(_)
Collapse(s) ==
    IF Len(s) <= 1 THEN s
    ELSE IF s[1] = "/" /\ s[2] = "/" THEN Collapse(Tail(s))
    ELSE <<s[1]>> \o Collapse(Tail(s))

RECURSIVE Strip(_)
Strip(s) ==
    IF Len(s) > 1 /\ s[Len(s)] = "/" THEN Strip(SubSeq(s, 1, Len(s) - 1)) ELSE s

Normal(s) == Strip(Collapse(s))

\* file = Path(pathToProject + "rules" + ruleCNSSI.split("rules")[1])
TargetOf(proj, ruleCNSSI) ==
    Normal(proj \o <<"rules">> \o Split(ruleCNSSI, "rules")[2])

\* a name `*` matches: not empty, no separator, no leading dot
IsName(s) == Len(s) > 0 /\ ~Contains(s, "/") /\ s[1] # "."

\* glob.glob(root + '/*/rules/*/*') over the files of the tree
GlobMatch(root, p) ==
    /\ Len(p) > Len(root)
    /\ SubSeq(p, 1, Len(root)) = root
    /\ LET parts == Split(SubSeq(p, Len(root) + 1, Len(p)), "/") IN
       /\ Len(parts) = 5
       /\ parts[1] = <<>>
       /\ IsName(parts[2])
       /\ parts[3] = <<"rules">>
       /\ IsName(parts[4])
       /\ IsName(parts[5])

Glob(root, tree) == {p \in tree : GlobMatch(root, p)}

\* the orders in which the glob may list a set of paths
Orders(S) ==
    {s \in [1..Cardinality(S) -> S] : \A i, j \in 1..Cardinality(S) : s[i] = s[j] => i = j}

\* ------------------------------------------------------- one loop iteration
\* the element of the for loop
Current == globbed[idx]

InLoop == pc = "loop" /\ idx <= Len(globbed)

\* mutant of Skipped: only the category directory is looked at
Skipped_CategoryOnly(S) ==
    Split(S, "/")[Len(Split(S, "/")) - 1] = <<"supplemental">>

Skipped(S) == Contains(S, "supplemental")

File(S) == TargetOf(pathToProject, S)

IsFile(p) == p \in DOMAIN project

\* the two loads, the tags and the tag value of the iteration over S
SourceYaml(S) == Load(customs[S])
TargetYaml(S) == Load(project[File(S)])
Tags(S) == GetTags(SourceYaml(S))
\* mutant of Anchor: the test is for mobileconfig, severity is the else branch
Anchor_MobileconfigFirst(S) ==
    IF TargetYaml(S).kind = "dict" /\ "mobileconfig" \in DOMAIN TargetYaml(S).keys
    THEN "mobileconfig" ELSE "severity"

Anchor(S) == IF HasSeverity(TargetYaml(S)) THEN "severity" ELSE "mobileconfig"
Tag(S) == Format(Subscript0(Tags(S)))

\* how far the iteration over an existing target gets before an exception:
\*   "load1"  yaml.load of the source raises
\*   "get"    rule_cnssi_yaml.get raises (the source is None or a list)
\*   "load2"  yaml.load of the target raises
\*   "in"     'severity' in rule_yaml raises (the target is None)
\*   "tags0"  tags[0] raises
\*   "ok"     no exception
Raises(S) ==
    CASE SourceYaml(S).kind = "error"  -> "load1"
      [] SourceYaml(S).kind # "dict"   -> "get"
      [] TargetYaml(S).kind = "error"  -> "load2"
      [] TargetYaml(S).kind = "none"   -> "in"
      [] ~CanSubscript0(Tags(S))       -> "tags0"
      [] OTHER                         -> "ok"

MsgFile(S) == [m |-> "file", path |-> File(S)]
MsgTags(S) == [m |-> "tags", tags |-> Tags(S)]
MsgTag(S) == [m |-> "cnssitag", anchor |-> Anchor(S), tag |-> Tag(S)]
MsgText(t) == [m |-> "yaml_rule", text |-> t]
MsgNotFound(S) == [m |-> "notfound", path |-> File(S)]

\* what the iteration prints before the exception
PrintedBefore(S) ==
    CASE Raises(S) = "load1"             -> <<>>
      [] Raises(S) = "get"               -> <<MsgFile(S)>>
      [] OTHER                           -> <<MsgFile(S), MsgTags(S)>>

\* mutant of Merged: the tag is not inserted above an anchor that has it
Merged_SkipsIfTagged(S) ==
    LET text == project[File(S)] IN
    IF \E i \in 2..Len(text) : Matches(text, i, Anchor(S)) /\ text[i - 1] = TagLine(Tag(S))
    THEN text
    ELSE Replace(text, Anchor(S), Tag(S))

\* mutant of Merged: both branches run, the mobileconfig one after the other
Merged_BothAnchors(S) ==
    Replace(Replace(project[File(S)], Anchor(S), Tag(S)), "mobileconfig", Tag(S))

\* the text written back to the target
Merged(S) == Replace(project[File(S)], Anchor(S), Tag(S))

\* if "supplemental" in ruleCNSSI: continue
Skip ==
    /\ InLoop
    /\ Skipped(Current)
    /\ idx' = idx + 1
    /\ UNCHANGED <<pathToProject, pathToCNSSICustoms, customs, project, globbed,
                   pc, out, run, base, orig>>

\* mutant of NotFound: the missing target is created, empty
NotFound_CreatesFile ==
    /\ InLoop
    /\ ~Skipped(Current)
    /\ ~IsFile(File(Current))
    /\ out' = Append(out, MsgNotFound(Current))
    /\ project' = [p \in DOMAIN project \cup {File(Current)} |->
                      IF p = File(Current) THEN <<>> ELSE project[p]]
    /\ idx' = idx + 1
    /\ UNCHANGED <<pathToProject, pathToCNSSICustoms, customs, globbed,
                   pc, run, base, orig>>

\* else: print("File: {} not found".format(file))
NotFound ==
    /\ InLoop
    /\ ~Skipped(Current)
    /\ ~IsFile(File(Current))
    /\ out' = Append(out, MsgNotFound(Current))
    /\ idx' = idx + 1
    /\ UNCHANGED <<pathToProject, pathToCNSSICustoms, customs, project, globbed,
                   pc, run, base, orig>>

\* the body of `if file.is_file():` when nothing raises
Merge ==
    /\ InLoop
    /\ ~Skipped(Current)
    /\ IsFile(File(Current))
    /\ Raises(Current) = "ok"
    /\ project' = [project EXCEPT ![File(Current)] = Merged(Current)]
    /\ out' = out \o <<MsgFile(Current), MsgTags(Current), MsgTag(Current),
                       MsgText(Merged(Current)), MsgTag(Current)>>
    /\ idx' = idx + 1
    /\ UNCHANGED <<pathToProject, pathToCNSSICustoms, customs, globbed, pc, run, base, orig>>

\* mutant of Abort: the files written so far are restored
Abort_RollsBack ==
    /\ InLoop
    /\ ~Skipped(Current)
    /\ IsFile(File(Current))
    /\ Raises(Current) # "ok"
    /\ out' = out \o PrintedBefore(Current)
    /\ pc' = "aborted"
    /\ project' = base
    /\ UNCHANGED <<pathToProject, pathToCNSSICustoms, customs, globbed,
                   idx, run, base, orig>>

\* the body of `if file.is_file():` when an exception ends the process
Abort ==
    /\ InLoop
    /\ ~Skipped(Current)
    /\ IsFile(File(Current))
    /\ Raises(Current) # "ok"
    /\ out' = out \o PrintedBefore(Current)
    /\ pc' = "aborted"
    /\ UNCHANGED <<pathToProject, pathToCNSSICustoms, customs, project, globbed,
                   idx, run, base, orig>>

\* the for loop is exhausted: the process exits
Finish ==
    /\ pc = "loop"
    /\ idx > Len(globbed)
    /\ pc' = "done"
    /\ UNCHANGED <<pathToProject, pathToCNSSICustoms, customs, project, globbed,
                   idx, out, run, base, orig>>

\* the tool is invoked again with the same arguments
Rerun ==
    /\ pc \in {"done", "aborted"}
    /\ run < MaxRuns
    /\ run' = run + 1
    /\ globbed' \in Orders(Glob(pathToCNSSICustoms, DOMAIN customs))
    /\ idx' = 1
    /\ pc' = "loop"
    /\ out' = <<>>
    /\ base' = project
    /\ UNCHANGED <<pathToProject, pathToCNSSICustoms, customs, project, orig>>

Next == Skip \/ NotFound \/ Merge \/ Abort \/ Finish \/ Rerun

\* ------------------------------------------------------------ input texts
LId == Key("id", "scalar")              \* id: x
LSev == Key("severity", "scalar")       \* severity: x
LMc == Key("mobileconfig", "scalar")    \* mobileconfig: x
LTags == Key("tags", "null")            \* tags:
LTagsE == Key("tags", "elist")          \* tags: []

\* an indented item stands directly below `key:` or below an indented item
\* (no input continues a plain scalar on an indented line)
WellFormed(text) ==
    \A i \in 1..Len(text) :
        (IsItem(text[i]) /\ text[i].ind = 2) =>
            /\ i > 1
            /\ \/ IsKey(text[i - 1]) /\ text[i - 1].val = "null"
               \/ IsItem(text[i - 1]) /\ text[i - 1].ind = 2

TargetLines == {LId, LSev, LMc, LTags, Item(2, "t"), Item(0, "t")}

TargetTexts ==
    {t \in UNION {[1..n -> TargetLines] : n \in 0..MaxLen} : WellFormed(t)}

SourceTexts ==
    { <<LId>>,                                 \* no tags key
      <<LId, LTags, Item(2, "a")>>,            \* tags: [a]
      <<LTags, Item(2, "b"), Item(2, "a")>>,   \* tags: [b, a]
      <<LTags, Item(0, "a"), Item(0, "b")>>,   \* tags: [a, b], not indented
      <<LTagsE>>,                              \* tags: []
      <<LId, LTags>>,                          \* tags: null
      <<LTags, Item(0, "")>>,                  \* tags: [null]
      <<Key("tags", "scalar")>>,               \* tags: x
      <<LId, Item(0, "a")>>,                   \* malformed
      <<>>,                                    \* empty document
      <<Item(0, "a")>> }                       \* a list document

\* ------------------------------------------------------------ input trees
Join(root, variant, cat, file) ==
    root \o <<"/">> \o variant \o <<"/", "rules", "/">> \o cat \o <<"/">> \o file

\* the rule file the customs file <variant>/rules/<cat>/<file> is a build of
RuleFile(proj, cat, file) == Normal(proj \o <<"rules", "/">> \o cat \o <<"/">> \o file)

\* p is a directory on the way to q
IsDirOf(p, q) ==
    Len(p) < Len(q) /\ SubSeq(q, 1, Len(p)) = p /\ q[Len(p) + 1] = "/"

\* the state at the start of the first invocation
Start(proj, root, cust, files) ==
    /\ pathToProject = proj
    /\ pathToCNSSICustoms = root
    /\ customs = cust
    /\ project = files
    /\ globbed \in Orders(Glob(root, DOMAIN cust))
    /\ idx = 1
    /\ pc = "loop"
    /\ out = <<>>
    /\ run = 1
    /\ base = files
    /\ orig = files

\* one customs rule over one project rule, every text
InitPair ==
    \E st \in SourceTexts, tt \in TargetTexts :
        Start(<<"p", "/">>, <<"c">>,
              Join(<<"c">>, <<"v1">>, <<"os">>, <<"f">>) :> st,
              RuleFile(<<"p", "/">>, <<"os">>, <<"f">>) :> tt)

\* a customs tree of several rules, two of them variants of one rule, one
\* supplemental, over a project that holds some of the rules
BatchSources ==
    { Join(<<"c">>, <<"v1">>, <<"os">>, <<"f">>),
      Join(<<"c">>, <<"v2">>, <<"os">>, <<"f">>),
      Join(<<"c">>, <<"v1">>, <<"os">>, <<"g">>),
      Join(<<"c">>, <<"v1">>, <<"supplemental">>, <<"f">>) }

BatchSourceTexts ==
    { <<LTags, Item(2, "a")>>, <<LTags, Item(2, "b")>>, <<LId, Item(0, "a")>> }

BatchTargets ==
    { RuleFile(<<"p", "/">>, <<"os">>, <<"f">>),
      RuleFile(<<"p", "/">>, <<"os">>, <<"g">>) }

BatchTargetTexts ==
    { <<LTags, LSev>>, <<LId, LSev, LMc>>, <<LId, Item(0, "t")>> }

Maps(D, R) == UNION {[X -> R] : X \in SUBSET D}

InitBatch ==
    \E cust \in Maps(BatchSources, BatchSourceTexts) :
    \E files \in Maps(BatchTargets, BatchTargetTexts) :
    \E sup \in Maps({RuleFile(<<"p", "/">>, <<"supplemental">>, <<"f">>)}, {<<LTags, LSev>>}) :
        /\ Cardinality(DOMAIN cust) \in 1..MaxSrc
        /\ Start(<<"p", "/">>, <<"c">>, cust, files @@ sup)

\* one customs file whose path holds "rules" or "supplemental" in any place
\* (or does not match the pattern), over a project that holds every rule
Roots == { <<"c">>, <<"rules", "_c">>, <<"supplemental", "_c">> }
Projects == { <<"p", "/">>, <<"p">>, <<"rules", "_p", "/">> }
Variants == { <<"v">>, <<"v", "rules">> }
Cats == { <<"os">>, <<"rules">>, <<"supplemental">>, <<"os", "supplemental">> }
Files == { <<"f">>, <<"f", "rules", "y">>, <<"supplemental", "f">>, <<".", "f">> }

TreePaths(root) ==
    {Join(root, v, c, f) : v \in Variants, c \in Cats, f \in Files}
    \cup { root \o <<"/", "v", "/", "other", "/", "os", "/", "f">>,
           root \o <<"/", "v", "/", "rules", "/", "f">> }

AllRules(proj) == {RuleFile(proj, c, f) : c \in Cats, f \in Files}

InitPaths ==
    \E root \in Roots, proj \in Projects :
    \E S \in TreePaths(root) :
    \E extra \in SUBSET (IF GlobMatch(root, S) THEN {TargetOf(proj, S)} ELSE {}) :
    \E D \in {{}, AllRules(proj) \cup {t \in extra : \A q \in AllRules(proj) : ~IsDirOf(t, q)}} :
        Start(proj, root, S :> <<LTags, Item(2, "a")>>,
              [q \in D |-> <<LId, LTags, LSev>>])

Init == InitPair \/ InitBatch \/ InitPaths

Spec == Init /\ [][Next]_vars

\* ================================================================ claims
\* the vocabulary of the claims, stated without the operators of the script

\* the lines of a text that start with `<anchor>:`
AnchorLines(text, anchor) ==
    {i \in 1..Len(text) : IsKey(text[i]) /\ text[i].name = anchor}

\* those of them a newline precedes
InnerAnchorLines(text, anchor) == AnchorLines(text, anchor) \ {1}

\* text with the line l inserted immediately before its line i
InsertedBefore(text, i, l) ==
    SubSeq(text, 1, i - 1) \o <<l>> \o SubSeq(text, i, Len(text))

\* r is text with n copies of the line l directly above each line of M, every
\* line of text kept, in the same order, and nothing else added
HasCopiesAbove(r, text, M, l, n) ==
    /\ Len(r) = Len(text) + n * Cardinality(M)
    /\ \A i \in 1..Len(text) :
          LET at == i + n * Cardinality({m \in M : m <= i}) IN
          /\ r[at] = text[i]
          /\ i \in M => \A j \in 1..n : r[at - j] = l

\* the rules of the current run
Enumerated == {globbed[i] : i \in 1..Len(globbed)}

\* the customs files that are merged into the project file t
SourcesOf(t) == {S \in Enumerated : ~Contains(S, "supplemental") /\ File(S) = t}

\* the source is a mapping, and its tags a list with a first element
IsMapping(text) == Load(text).kind = "dict"
HasTagsList(text) ==
    /\ IsMapping(text)
    /\ "tags" \in DOMAIN Load(text).keys
    /\ Load(text).keys["tags"].py = "list"
TagsValue(text) == Load(text).keys["tags"]

\* tags has a first element: that of a list, or the first character of a
\* scalar (the scalar of these texts is the one character x)
HasFirstTag(text) ==
    /\ IsMapping(text)
    /\ "tags" \in DOMAIN Load(text).keys
    /\ \/ TagsValue(text).py = "list" /\ Len(TagsValue(text).items) > 0
       \/ TagsValue(text).py = "str"
FirstTag(text) ==
    IF TagsValue(text).py = "list" THEN Format(TagsValue(text).items[1])
    ELSE TagsValue(text).s

\* the mapping of a target has the key
HasKey(text, name) == IsMapping(text) /\ name \in DOMAIN Load(text).keys

\* the anchor of a target: `severity` when its mapping has the key
AnchorOf(text) == IF HasKey(text, "severity") THEN "severity" ELSE "mobileconfig"

\* the target can be read as a rule: it loads, and not as an empty document
Loads(text) == Load(text).kind \in {"dict", "list"}

\* the line the source S adds: `- ` when it has no tags key
LineOf(S) ==
    IF HasFirstTag(customs[S]) THEN Item(0, FirstTag(customs[S])) ELSE Item(0, "")

\* S is merged into t when its turn comes and nothing raises
Mergeable(S, text) ==
    /\ IsMapping(customs[S])
    /\ HasFirstTag(customs[S]) \/ "tags" \notin DOMAIN Load(customs[S]).keys
    /\ Loads(text)

\* --------------------------------------------------------------------- C1
\* C1 as stated: after the first run, a target that has a top-level
\* `severity:` line, for the one source merged into it, is its original text
\* with exactly one line `- <tag>` (the first of the source's tags) inserted
\* immediately before a `severity:` line.
C1_Case(S, t) ==
    /\ t \in DOMAIN orig
    /\ SourcesOf(t) = {S}
    /\ HasFirstTag(customs[S])
    /\ HasKey(orig[t], "severity")
    /\ AnchorLines(orig[t], "severity") # {}

C1_AsStated ==
    (run = 1 /\ pc = "done") =>
        \A S \in Enumerated : \A t \in DOMAIN orig :
            C1_Case(S, t) =>
                \E i \in AnchorLines(orig[t], "severity") :
                    project[t] = InsertedBefore(orig[t], i, Item(0, FirstTag(customs[S])))

\* C1 amended: after the first run such a target is its original text with one
\* line `- <tag>` inserted immediately before every line that starts with
\* `severity:` and follows a newline (none before a `severity:` line that
\* opens the file), every other line unchanged and in the same order.
C1_SeverityTagged ==
    (run = 1 /\ pc = "done") =>
        \A S \in Enumerated : \A t \in DOMAIN orig :
            C1_Case(S, t) =>
                HasCopiesAbove(project[t], orig[t], InnerAnchorLines(orig[t], "severity"),
                               Item(0, FirstTag(customs[S])), 1)

\* C1 witness: a reachable state in which the case of C1 has happened
C1_Witness ==
    /\ run = 1
    /\ pc = "done"
    /\ \E S \in Enumerated : \E t \in DOMAIN orig :
          /\ C1_Case(S, t)
          /\ Len(project[t]) = Len(orig[t]) + 1
          /\ \E i \in 2..Len(project[t]) :
                /\ project[t][i] = LSev
                /\ project[t][i - 1] = Item(0, FirstTag(customs[S]))

\* --------------------------------------------------------------------- C2
\* the suffix of s that follows its last occurrence of tok
AfterLast(s, tok) ==
    LET last == CHOOSE i \in 1..Len(s) : s[i] = tok /\ \A j \in (i + 1)..Len(s) : s[j] # tok
    IN  SubSeq(s, last + 1, Len(s))

ClaimedTarget(proj, S) == Normal(proj \o <<"rules">> \o AfterLast(S, "rules"))

\* C2 as stated: the path the tool checks (the one its first message of the
\* rule names) and the only path it writes is project_root + "rules" + the
\* suffix of the source path after its LAST "rules", for every source path.
C2_AsStated ==
    (Len(globbed) = 1 /\ ~Contains(globbed[1], "supplemental")) =>
        /\ out # <<>> => out[1].path = ClaimedTarget(pathToProject, globbed[1])
        /\ \A t \in DOMAIN project :
              project[t] # base[t] => t = ClaimedTarget(pathToProject, globbed[1])

\* --------------------------------------------------------------------- C4
TagsMissing(text) == IsMapping(text) /\ "tags" \notin DOMAIN Load(text).keys
TagsEmpty(text) == HasTagsList(text) /\ Len(Load(text).keys["tags"].items) = 0

\* C4 as stated: a source whose tags are missing or an empty list is still
\* processed to the end and the line inserted before the anchor is `- `; a
\* source with a non-empty tags list inserts its first element.
C4_AsStated ==
    /\ (pc = "aborted" /\ Loads(project[File(Current)])) =>
          ~(TagsMissing(customs[Current]) \/ TagsEmpty(customs[Current]))
    /\ (run = 1 /\ pc = "done") =>
          \A S \in Enumerated : \A t \in DOMAIN orig :
              (SourcesOf(t) = {S} /\ Loads(orig[t])) =>
                  /\ (TagsMissing(customs[S]) \/ TagsEmpty(customs[S])) =>
                        HasCopiesAbove(project[t], orig[t],
                            InnerAnchorLines(orig[t], AnchorOf(orig[t])), Item(0, ""), 1)
                  /\ HasFirstTag(customs[S]) =>
                        HasCopiesAbove(project[t], orig[t],
                            InnerAnchorLines(orig[t], AnchorOf(orig[t])),
                            Item(0, FirstTag(customs[S])), 1)

\* --------------------------------------------------------------------- C6
\* C6: when the target path computed for a rule is not a file of the project,
\* the iteration prints one "not found" message that names the path, changes
\* no file and creates none, does not read the source (a malformed source does
\* not end the run) and the loop goes on with the next path.
C6_NotFoundIsSkipped ==
    [][(InLoop /\ ~Contains(Current, "supplemental")
            /\ TargetOf(pathToProject, Current) \notin DOMAIN project) =>
          /\ out' = Append(out, [m |-> "notfound",
                                 path |-> TargetOf(pathToProject, Current)])
          /\ project' = project
          /\ customs' = customs
          /\ pc' = "loop"
          /\ globbed' = globbed
          /\ idx' = idx + 1]_vars

\* C6 witness: a reachable state in which the case of C6 has happened
C6_Witness ==
    /\ pc = "loop"
    /\ idx = 2
    /\ Len(globbed) = 2
    /\ Load(customs[globbed[1]]).kind = "error"
    /\ File(globbed[1]) \notin DOMAIN project
    /\ out = <<[m |-> "notfound", path |-> File(globbed[1])]>>
    /\ project = base

\* --------------------------------------------------------------------- C7
\* C7: a rule whose path holds "supplemental" anywhere (customs root, variant,
\* category or file name) is passed over: nothing is printed, no file read,
\* written or created, whether a project file matches it or not.
C7_SupplementalUntouched ==
    [][(InLoop /\ Contains(Current, "supplemental")) =>
          /\ out' = out
          /\ project' = project
          /\ customs' = customs
          /\ pc' = pc
          /\ globbed' = globbed
          /\ idx' = idx + 1]_vars

\* C7 witness: a reachable state in which the case of C7 has happened
C7_Witness ==
    /\ idx > 1
    /\ globbed[idx - 1][1] = "supplemental"
    /\ File(globbed[idx - 1]) \in DOMAIN project
    /\ out = <<>>
    /\ project = base

\* ------------------------------------------------------------- C3 and C8
\* the step in which the loop merges its current rule into the file t and
\* goes on: old and new are the texts of t before and after
Completes(t) ==
    /\ InLoop
    /\ ~Contains(Current, "supplemental")
    /\ t = File(Current)
    /\ t \in DOMAIN project
    /\ idx' = idx + 1

\* the anchor the iteration printed (the third message of the five)
PrintedAnchor == out'[Len(out) + 3].anchor

\* C3 as stated: the anchor is `severity` when the target's mapping has that
\* key (also beside `mobileconfig`) and `mobileconfig` otherwise; a target that
\* holds `mobileconfig:` and no `severity:` gets the tag line immediately
\* before `mobileconfig:`.
C3_AsStated ==
    [][\A t \in DOMAIN project : Completes(t) =>
          /\ PrintedAnchor = AnchorOf(project[t])
          /\ (AnchorLines(project[t], "mobileconfig") # {}
                /\ AnchorLines(project[t], "severity") = {}) =>
                \E i \in AnchorLines(project[t], "mobileconfig") :
                    project'[t] = InsertedBefore(project[t], i, LineOf(Current))]_vars

\* C3 amended: the anchor is chosen from the target's mapping alone, and the
\* tag line goes immediately before every line of that anchor that follows a
\* newline and nowhere else: before `severity:` lines when the mapping has the
\* key (never before `mobileconfig:` then), before `mobileconfig:` lines
\* otherwise, and before none when the anchor only opens the file.
C3_AnchorFromMapping ==
    [][\A t \in DOMAIN project : Completes(t) =>
          /\ PrintedAnchor = AnchorOf(project[t])
          /\ HasCopiesAbove(project'[t], project[t],
                 InnerAnchorLines(project[t], AnchorOf(project[t])),
                 LineOf(Current), 1)]_vars

\* C3 witness: a reachable state in which the case of C3 has happened
C3_Witness ==
    /\ run = 1
    /\ idx = 2
    /\ Len(globbed) = 1
    /\ \E t \in DOMAIN orig :
          /\ AnchorLines(orig[t], "mobileconfig") = {3}
          /\ AnchorLines(orig[t], "severity") = {2}
          /\ Len(project[t]) = 4
          /\ project[t][2] = LineOf(globbed[1])
          /\ project[t][3] = LSev
          /\ project[t][4] = LMc

\* C8 as stated: one processing replaces the first occurrence only, so it adds
\* exactly one tag line, before the first anchor line that follows a newline,
\* however many anchor lines the text holds.
C8_AsStated ==
    [][\A t \in DOMAIN project :
          (Completes(t) /\ InnerAnchorLines(project[t], AnchorOf(project[t])) # {}) =>
              \E i \in InnerAnchorLines(project[t], AnchorOf(project[t])) :
                  /\ \A j \in InnerAnchorLines(project[t], AnchorOf(project[t])) : i <= j
                  /\ project'[t] = InsertedBefore(project[t], i, LineOf(Current))]_vars

\* C8 amended: one processing replaces every occurrence: the text grows by one
\* tag line for each anchor line that follows a newline, and afterwards every
\* such anchor line has the tag line directly above it.
C8_EveryOccurrence ==
    [][\A t \in DOMAIN project : Completes(t) =>
          LET a == AnchorOf(project[t]) IN
          /\ Len(project'[t]) = Len(project[t]) + Cardinality(InnerAnchorLines(project[t], a))
          /\ Cardinality(AnchorLines(project'[t], a)) = Cardinality(AnchorLines(project[t], a))
          /\ \A j \in InnerAnchorLines(project'[t], a) :
                project'[t][j - 1] = LineOf(Current)]_vars

\* C8 witness: a reachable state in which the case of C8 has happened
C8_Witness ==
    /\ run = 1
    /\ idx = 2
    /\ Len(globbed) = 1
    /\ \E t \in DOMAIN orig :
          /\ Cardinality(InnerAnchorLines(orig[t], AnchorOf(orig[t]))) = 2
          /\ Len(project[t]) = Len(orig[t]) + 2

\* --------------------------------------------------------------------- C5
\* C5 as stated: after the second run over the same trees (one rule, which
\* the tool can merge, over a target with an anchor line) the target holds two
\* copies of `- <tag>` directly above the anchor line.
C5_AsStated ==
    (run = 2 /\ pc \in {"done", "aborted"}) =>
        \A S \in Enumerated : \A t \in DOMAIN orig :
            (/\ Enumerated = {S}
             /\ SourcesOf(t) = {S}
             /\ Mergeable(S, orig[t])
             /\ AnchorLines(orig[t], AnchorOf(orig[t])) # {}) =>
                \E i \in AnchorLines(orig[t], AnchorOf(orig[t])) :
                    project[t] = InsertedBefore(InsertedBefore(orig[t], i, LineOf(S)),
                                                i, LineOf(S))

\* C5 amended: the merge is not idempotent.  Every run that completes inserts
\* `- <tag>` again: after n completed runs each anchor line that follows a
\* newline has n copies directly above it (an anchor line that opens the file
\* has none).  When the first insertion leaves the target unparseable, the
\* later runs abort at it and it keeps its single copy.
C5_OneCopyPerRun ==
    \A t \in DOMAIN orig : \A S \in Enumerated :
        SourcesOf(t) = {S} =>
            LET M == InnerAnchorLines(orig[t], AnchorOf(orig[t])) IN
            /\ pc = "done" => HasCopiesAbove(project[t], orig[t], M, LineOf(S), run)
            /\ (Loads(orig[t]) /\ ~Loads(project[t])) =>
                  HasCopiesAbove(project[t], orig[t], M, LineOf(S), 1)
            /\ \E n \in 0..run : HasCopiesAbove(project[t], orig[t], M, LineOf(S), n)

\* C5 witness: a reachable state in which the case of C5 has happened
C5_Witness ==
    /\ run = 2
    /\ pc = "done"
    /\ \E S \in Enumerated : \E t \in DOMAIN orig :
          /\ SourcesOf(t) = {S}
          /\ InnerAnchorLines(orig[t], AnchorOf(orig[t])) # {}
          /\ Len(project[t]) = Len(orig[t]) + 2
          /\ \E i \in 3..Len(project[t]) :
                /\ IsKey(project[t][i])
                /\ project[t][i - 1] = LineOf(S)
                /\ project[t][i - 2] = LineOf(S)

\* --------------------------------------------------------------------- C9
Malformed(text) == Load(text).kind = "error"

\* the rules before position n that are merged into t
MergedBefore(t, n) ==
    {j \in 1..(n - 1) : ~Contains(globbed[j], "supplemental") /\ File(globbed[j]) = t}

\* no rule the loop has left behind was malformed
C9_AbortsAtFirst ==
    \A j \in 1..(idx - 1) :
        (~Contains(globbed[j], "supplemental") /\ File(globbed[j]) \in DOMAIN base) =>
            ~Malformed(customs[globbed[j]]) /\ ~Malformed(base[File(globbed[j])])

\* C9 as stated: when the run aborts at rule k on malformed YAML, the target
\* of rule k and the targets of the later rules are exactly as before the run.
C9_AsStated ==
    (/\ pc = "aborted"
     /\ Malformed(customs[Current]) \/ Malformed(project[File(Current)])) =>
        /\ C9_AbortsAtFirst
        /\ \A j \in idx..Len(globbed) :
              (~Contains(globbed[j], "supplemental") /\ File(globbed[j]) \in DOMAIN base) =>
                  project[File(globbed[j])] = base[File(globbed[j])]

\* C9 amended: when the run aborts at rule k, every project file holds exactly
\* what rules 1..k-1 wrote and nothing else: a file none of them maps to is as
\* before the run, a file one of them maps to keeps that rule's tag lines; so
\* the target of rule k or of a later rule is as before the run unless one of
\* rules 1..k-1 has the same target.
C9_NoRollback ==
    pc = "aborted" =>
        /\ C9_AbortsAtFirst
        /\ DOMAIN project = DOMAIN base
        /\ \A t \in DOMAIN base :
              LET M == InnerAnchorLines(base[t], AnchorOf(base[t])) IN
              /\ MergedBefore(t, idx) = {} => project[t] = base[t]
              /\ \A j \in MergedBefore(t, idx) :
                    MergedBefore(t, idx) = {j} =>
                        HasCopiesAbove(project[t], base[t], M, LineOf(globbed[j]), 1)
              /\ Len(project[t]) = Len(base[t]) + Cardinality(MergedBefore(t, idx)) * Cardinality(M)

\* C9 witness: a reachable state in which the case of C9 has happened
C9_Witness ==
    /\ pc = "aborted"
    /\ idx = 2
    /\ Malformed(customs[globbed[2]])
    /\ File(globbed[2]) # File(globbed[1])
    /\ File(globbed[2]) \in DOMAIN project
    /\ project[File(globbed[2])] = base[File(globbed[2])]
    /\ File(globbed[1]) \in DOMAIN project
    /\ Len(project[File(globbed[1])]) = Len(base[File(globbed[1])]) + 1

\* -------------------------------------------------------------------- C10
\* the times the current run wrote t: a path message followed by the text
\* written under it
Writes(t) ==
    Cardinality({i \in 1..Len(out) :
        /\ out[i].m = "file"
        /\ out[i].path = t
        /\ i + 3 <= Len(out)
        /\ out[i + 3].m = "yaml_rule"})

\* C10 as stated: within one run every target is written at most once, for
\* every customs tree.
C10_AsStated == \A t \in DOMAIN project : Writes(t) <= 1

\* C10 amended: within one run a target is written once for each rule that
\* maps to it and is not supplemental, each write adding one tag line per
\* anchor line that follows a newline: once, with a final text that does not
\* depend on the order, when one customs file maps to it; once per variant,
\* in the order of the enumeration, when several variants map to it.
C10_OncePerSource ==
    \A t \in DOMAIN project :
        LET M == InnerAnchorLines(base[t], AnchorOf(base[t])) IN
        /\ Writes(t) = Cardinality(MergedBefore(t, idx))
        /\ Len(project[t]) = Len(base[t]) + Writes(t) * Cardinality(M)
        /\ \A S \in Enumerated :
              (SourcesOf(t) = {S} /\ pc = "done") =>
                  HasCopiesAbove(project[t], base[t], M, LineOf(S), 1)

\* C10 witness: a reachable state in which the case of C10 has happened
C10_Witness ==
    /\ run = 1
    /\ pc = "done"
    /\ \E t \in DOMAIN project :
          /\ Writes(t) = 2
          /\ Len(project[t]) = Len(base[t]) + 2
          /\ \E i \in 1..(Len(project[t]) - 1) :
                /\ project[t][i] = Item(0, "b")
                /\ project[t][i + 1] = Item(0, "a")

====
